---- MODULE Spec2Model ----
(***************************************************************************)
(* A model of the colour-blind LUT generator                               *)
(* (src/py_modules/colorblind_plugin/lut_generator.py).                    *)
(*                                                                         *)
(* Python floats are modelled as signed fixed-point decimals: a number is  *)
(* a tuple of limbs <<a1, ..., aL>> in base 10^4 whose value is            *)
(*     a1 + a2/10^4 + a3/10^8 + ...                                        *)
(* with a1 any integer (the floor of the value) and the other limbs in     *)
(* 0..9999.  The number of limbs is the working precision and is carried   *)
(* by the data: 2 limbs are 4 decimals, 4 limbs are 12 decimals.  Every    *)
(* operation returns a result of the precision of its first operand, and   *)
(* rounds toward minus infinity.  The calibration matrices are written     *)
(* with the decimals the source gives (at most 12) and are exact at 4      *)
(* limbs.                                                                  *)
(***************************************************************************)
EXTENDS Integers, Sequences, FiniteSets, TLC

VARIABLES
  pc,          \* where the call in flight stands: "idle", "validate", "sample",
               \* "write", "transform", "lms", "lms_out", "delta", "returned"
               \* or "raised"
  args,        \* the function called and its arguments
  lut_data,    \* generate_lut: lut_data, <<>> until create_lut has returned
  files,       \* the file system: the existing paths and their lines
  files0,      \* the file system as the call found it
  result,      \* what the call returned or raised
  frame,       \* simulate, daltonise, correct: the local variables set so far
  config,      \* ConfigManager.config: the sections of the parser in memory
  config0,     \* the sections as the last call of the settings store found them
  config_file, \* config.ini on disk: NoFile, or the sections last saved
  looks,       \* the calls of gamescopectl set_look made so far, in order
  request      \* the apply_configuration request in flight

vars == <<pc, args, lut_data, files, files0, result, frame,
          config, config0, config_file, looks, request>>

\* the state of the settings store and of the plugin
plugin_vars == <<config, config0, config_file, looks, request>>

-----------------------------------------------------------------------------
(* float arithmetic *)

Base == 10^4

ZeroLimbs(n) == [i \in 1..n |-> 0]

\* the number of precision Len(like) that has the leading limbs of x
ToPrec(x, like) ==
  [i \in 1..Len(like) |-> IF i <= Len(x) THEN x[i] ELSE 0]

\* raw limbs (any integers) to the normal form of the same value: carries
\* from the last limb to the first
Norm2(c1, c2) == <<c1 + (c2 \div Base), c2 % Base>>

Norm4(c1, c2, c3, c4) ==
  LET t3 == c3 + (c4 \div Base)
      t2 == c2 + (t3 \div Base)
  IN <<c1 + (t2 \div Base), t2 % Base, t3 % Base, c4 % Base>>

Norm(c) ==
  IF Len(c) = 2 THEN Norm2(c[1], c[2]) ELSE Norm4(c[1], c[2], c[3], c[4])

FAdd(a, b) ==
  IF Len(a) = 2 THEN Norm2(a[1] + b[1], a[2] + b[2])
  ELSE Norm4(a[1] + b[1], a[2] + b[2], a[3] + b[3], a[4] + b[4])

FSub(a, b) ==
  IF Len(a) = 2 THEN Norm2(a[1] - b[1], a[2] - b[2])
  ELSE Norm4(a[1] - b[1], a[2] - b[2], a[3] - b[3], a[4] - b[4])

FNeg(a) ==
  IF Len(a) = 2 THEN Norm2(0 - a[1], 0 - a[2])
  ELSE Norm4(0 - a[1], 0 - a[2], 0 - a[3], 0 - a[4])

\* a * b: the limb products by weight, the carries of the limbs below the
\* precision, and the normal form of the rest
FMul(a, b) ==
  IF Len(a) = 2
  THEN Norm2(a[1]*b[1],
             a[1]*b[2] + a[2]*b[1] + ((a[2]*b[2]) \div Base))
  ELSE LET w7 == a[4]*b[4]
           w6 == a[3]*b[4] + a[4]*b[3] + (w7 \div Base)
           w5 == a[2]*b[4] + a[3]*b[3] + a[4]*b[2] + (w6 \div Base)
       IN Norm4(a[1]*b[1],
                a[1]*b[2] + a[2]*b[1],
                a[1]*b[3] + a[2]*b[2] + a[3]*b[1],
                a[1]*b[4] + a[2]*b[3] + a[3]*b[2] + a[4]*b[1] + (w5 \div Base))

RECURSIVE LongDiv(_, _, _, _)
LongDiv(a, k, i, rem) ==
  IF i > Len(a) THEN <<>>
  ELSE LET cur == rem * Base + a[i]
       IN <<cur \div k>> \o LongDiv(a, k, i + 1, cur % k)

\* a / k for an integer k in 1..10^5
FDivInt(a, k) == LongDiv(a, k, 1, 0)

RECURSIVE LexLeq(_, _, _)
LexLeq(a, b, i) ==
  IF i > Len(a) THEN TRUE
  ELSE IF a[i] = b[i] THEN LexLeq(a, b, i + 1)
  ELSE a[i] < b[i]

FLeq(a, b) ==
  IF Len(a) = 2 THEN a[1] < b[1] \/ (a[1] = b[1] /\ a[2] <= b[2])
  ELSE LexLeq(a, b, 1)

FLess(a, b) == ~FLeq(b, a)

FMax(a, b) == IF FLeq(a, b) THEN b ELSE a

FMin(a, b) == IF FLeq(a, b) THEN a ELSE b

\* the integer n, and n + 0.5, at the precision of like
FInt(n, like) == [i \in 1..Len(like) |-> IF i = 1 THEN n ELSE 0]

FHalfMore(n, like) ==
  [i \in 1..Len(like) |-> IF i = 1 THEN n ELSE IF i = 2 THEN Base \div 2 ELSE 0]

\* the literal  int.f8f12  (f8 the first eight decimals, f12 the next four)
Dec(int, f8, f12) == <<int, f8 \div Base, f8 % Base, f12>>

\* the literal  -int.f8f12
Minus(int, f8, f12) == FNeg(Dec(int, f8, f12))

RECURSIVE PowInt(_, _)
PowInt(r, n) ==
  IF n = 1 THEN r
  ELSE IF n % 2 = 0 THEN LET h == PowInt(r, n \div 2) IN FMul(h, h)
  ELSE FMul(r, PowInt(r, n - 1))

\* one limb of the root: the largest value of limb `limb` of r, found bit by
\* bit, that keeps r^n <= x
RECURSIVE LimbSearch(_, _, _, _, _)
LimbSearch(x, n, r, limb, step) ==
  IF step = 0 THEN r
  ELSE LET c == [r EXCEPT ![limb] = @ + step]
       IN IF c[limb] < Base /\ FLeq(PowInt(c, n), x)
          THEN LimbSearch(x, n, c, limb, step \div 2)
          ELSE LimbSearch(x, n, r, limb, step \div 2)

\* the largest r in [0, 1) of the precision of x with r^n <= x, limb by limb
RootSearch(x, n) ==
  LET r2 == LimbSearch(x, n, ZeroLimbs(Len(x)), 2, 8192)
  IN IF Len(x) = 2 THEN r2
     ELSE LimbSearch(x, n, LimbSearch(x, n, r2, 3, 8192), 4, 8192)

\* x^(1/n) for 0 <= x <= 1
Root(x, n) ==
  IF FLeq(FInt(1, x), x) THEN FInt(1, x) ELSE RootSearch(x, n)

\* math.pow(x, num/den) for 0 <= x <= 1
FPow(x, num, den) == PowInt(Root(x, den), num)

-----------------------------------------------------------------------------
(* Vec3 and Mat3: a vector is <<x, y, z>>, a matrix is its three rows *)

VAdd(a, b) == <<FAdd(a[1], b[1]), FAdd(a[2], b[2]), FAdd(a[3], b[3])>>

VSub(a, b) == <<FSub(a[1], b[1]), FSub(a[2], b[2]), FSub(a[3], b[3])>>

\* Vec3.__mul__: every component times the scalar
VScale(a, scalar) == <<FMul(a[1], scalar), FMul(a[2], scalar), FMul(a[3], scalar)>>

\* Vec3.dot; a constant operand is read at the precision of the other one
Dot(a, b) ==
  FAdd(FAdd(FMul(ToPrec(a[1], b[1]), b[1]), FMul(ToPrec(a[2], b[2]), b[2])),
       FMul(ToPrec(a[3], b[3]), b[3]))

VPow(a, num, den) == <<FPow(a[1], num, den), FPow(a[2], num, den), FPow(a[3], num, den)>>

ClampChannel(x) == FMax(FInt(0, x), FMin(FInt(1, x), x))

\* a clamp that forgets the upper bound
ClampLowerOnly(a) ==
  <<FMax(FInt(0, a[1]), a[1]), FMax(FInt(0, a[2]), a[2]), FMax(FInt(0, a[3]), a[3])>>

\* Vec3.clamp
Clamp(a) == <<ClampChannel(a[1]), ClampChannel(a[2]), ClampChannel(a[3])>>

\* Mat3.mul_vec
MulVec(m, v) == <<Dot(m[1], v), Dot(m[2], v), Dot(m[3], v)>>

\* Mat3.row and Mat3.col, i in 0..2
Row(m, i) == m[i + 1]

Col(m, i) == <<m[1][i + 1], m[2][i + 1], m[3][i + 1]>>

-----------------------------------------------------------------------------
(* the calibration matrices *)

LMS_FROM_RGB ==
  << << Dec(0, 31399022, 0000), Dec(0, 63951294, 0000), Dec(0, 04649755, 0000) >>,
     << Dec(0, 15537241, 0000), Dec(0, 75789446, 0000), Dec(0, 08670142, 0000) >>,
     << Dec(0, 01775239, 0000), Dec(0, 10944209, 0000), Dec(0, 87256922, 0000) >> >>

RGB_FROM_LMS ==
  << << Dec(5, 47221206, 0000), Minus(4, 64196010, 0000), Dec(0, 16963708, 0000) >>,
     << Minus(1, 12524190, 0000), Dec(2, 29317094, 0000), Minus(0, 16789520, 0000) >>,
     << Dec(0, 02980165, 0000), Minus(0, 19318073, 0000), Dec(1, 16364789, 0000) >> >>

\* a simulation matrix whose first row reads the channel it replaces
LMS_SIMULATE_OwnChannel ==
  << << Dec(0, 10000000, 0000), Dec(1, 05118294, 0000), Minus(0, 05116099, 0000) >>,
     << Dec(0, 95130920, 0000), Dec(0, 00000000, 0000), Dec(0, 04866992, 0000) >>,
     << Minus(0, 86744736, 0000), Dec(1, 86727089, 0000), Dec(0, 00000000, 0000) >> >>

LMS_SIMULATE ==
  << << Dec(0, 00000000, 0000), Dec(1, 05118294, 0000), Minus(0, 05116099, 0000) >>,
     << Dec(0, 95130920, 0000), Dec(0, 00000000, 0000), Dec(0, 04866992, 0000) >>,
     << Minus(0, 86744736, 0000), Dec(1, 86727089, 0000), Dec(0, 00000000, 0000) >> >>

LMS_FROM_RGB_V ==
  << << Dec(17, 88240000, 0000), Dec(43, 51610000, 0000), Dec(4, 11935000, 0000) >>,
     << Dec(3, 45565000, 0000), Dec(27, 15540000, 0000), Dec(3, 86714000, 0000) >>,
     << Dec(0, 02995660, 0000), Dec(0, 18430900, 0000), Dec(1, 46709000, 0000) >> >>

RGB_FROM_LMS_V ==
  << << Dec(0, 08094444, 7900), Minus(0, 13050440, 9000), Dec(0, 11672106, 6000) >>,
     << Minus(0, 01024853, 3500), Dec(0, 05401932, 6600), Minus(0, 11361470, 8000) >>,
     << Minus(0, 00036529, 6938), Minus(0, 00412161, 4690), Dec(0, 69351140, 5000) >> >>

LMS_PROTANOPE_V ==
  << << Dec(0, 00000000, 0000), Dec(2, 02344000, 0000), Minus(2, 52581000, 0000) >>,
     << Dec(0, 00000000, 0000), Dec(1, 00000000, 0000), Dec(0, 00000000, 0000) >>,
     << Dec(0, 00000000, 0000), Dec(0, 00000000, 0000), Dec(1, 00000000, 0000) >> >>

LMS_DEUTERANOPE_V ==
  << << Dec(1, 00000000, 0000), Dec(0, 00000000, 0000), Dec(0, 00000000, 0000) >>,
     << Dec(0, 49420700, 0000), Dec(0, 00000000, 0000), Dec(1, 24827000, 0000) >>,
     << Dec(0, 00000000, 0000), Dec(0, 00000000, 0000), Dec(1, 00000000, 0000) >> >>

LMS_TRITANOPE_V ==
  << << Dec(1, 00000000, 0000), Dec(0, 00000000, 0000), Dec(0, 00000000, 0000) >>,
     << Dec(0, 00000000, 0000), Dec(1, 00000000, 0000), Dec(0, 00000000, 0000) >>,
     << Minus(0, 39591300, 0000), Dec(0, 80110900, 0000), Dec(0, 00000000, 0000) >> >>

DALTON_ERROR_TO_DELTA_P ==
  << << Dec(0, 00000000, 0000), Dec(0, 00000000, 0000), Dec(0, 00000000, 0000) >>,
     << Dec(0, 70000000, 0000), Dec(1, 00000000, 0000), Dec(0, 00000000, 0000) >>,
     << Dec(0, 70000000, 0000), Dec(0, 00000000, 0000), Dec(1, 00000000, 0000) >> >>

DALTON_ERROR_TO_DELTA_D ==
  << << Dec(1, 00000000, 0000), Dec(0, 70000000, 0000), Dec(0, 00000000, 0000) >>,
     << Dec(0, 00000000, 0000), Dec(0, 00000000, 0000), Dec(0, 00000000, 0000) >>,
     << Dec(0, 00000000, 0000), Dec(0, 70000000, 0000), Dec(1, 00000000, 0000) >> >>

DALTON_ERROR_TO_DELTA_T ==
  << << Dec(1, 00000000, 0000), Dec(0, 00000000, 0000), Dec(0, 70000000, 0000) >>,
     << Dec(0, 00000000, 0000), Dec(1, 00000000, 0000), Dec(0, 70000000, 0000) >>,
     << Dec(0, 00000000, 0000), Dec(0, 00000000, 0000), Dec(0, 00000000, 0000) >> >>

NC_DELTA_RECIP ==
  << << Dec(0, 00000000, 0000), Dec(1, 05118299, 0000), Minus(1, 15280771, 0000) >>,
     << Dec(0, 95130914, 4000), Dec(0, 00000000, 0000), Dec(0, 53554093, 8000) >>,
     << Minus(19, 54614260, 0000), Dec(20, 54657170, 0000), Dec(0, 00000000, 0000) >> >>

-----------------------------------------------------------------------------
(* colour conversion and the three transforms *)

\* GAMMA = 2.2 = GammaNum / GammaDen
GammaNum == 11

GammaDen == 5

\* to_linear: rgb.pow(GAMMA)
to_linear(rgb) == VPow(rgb, GammaNum, GammaDen)

\* from_linear: rgb.pow(1.0 / GAMMA)
from_linear(rgb) == VPow(rgb, GammaDen, GammaNum)

CBTypes == {"protanope", "deuteranope", "tritanope"}

Operations == {"simulate", "daltonise", "correct"}

\* a channel map with the protan and deutan channels exchanged
channel_map_swapped(cb_type) ==
  CASE cb_type = "protanope" -> 1
    [] cb_type = "deuteranope" -> 0
    [] cb_type = "tritanope" -> 2

\* channel_map of simulate and correct
channel_map(cb_type) ==
  CASE cb_type = "protanope" -> 0
    [] cb_type = "deuteranope" -> 1
    [] cb_type = "tritanope" -> 2

\* simulate, to the LMS vector it starts from: lms
simulate_lms_in(rgb) == MulVec(LMS_FROM_RGB, to_linear(rgb))

\* simulate, the value the affected channel would read: sim_value
simulate_sim_value(lms, cb_type) == Dot(Row(LMS_SIMULATE, channel_map(cb_type)), lms)

\* simulate, the interpolation and the reconstruction of the LMS vector: from
\* lms to lms_sim
simulate_lms_step(lms, cb_type, strength) ==
  LET channel   == channel_map(cb_type)
      sim_value == simulate_sim_value(lms, cb_type)
      affected  == lms[channel + 1]
      new_value == FAdd(affected, FMul(strength, FSub(sim_value, affected)))
  IN [lms EXCEPT ![channel + 1] = new_value]

\* simulate and correct, from the new LMS vector to the colour returned
rgb_from_lms(lms_new) ==
  LET rgb_out     == MulVec(RGB_FROM_LMS, lms_new)
      rgb_clamped == Clamp(rgb_out)
  IN from_linear(rgb_clamped)

simulate(rgb, cb_type, strength) ==
  rgb_from_lms(simulate_lms_step(simulate_lms_in(rgb), cb_type, strength))

\* a simulate_v that converts to LMS with the matrix of the other model
simulate_v_primary_lms(rgb, lms_transform) ==
  LET lms == MulVec(lms_transform, MulVec(LMS_FROM_RGB, rgb))
  IN MulVec(RGB_FROM_LMS_V, lms)

simulate_v(rgb, lms_transform) ==
  LET lms == MulVec(lms_transform, MulVec(LMS_FROM_RGB_V, rgb))
  IN MulVec(RGB_FROM_LMS_V, lms)

\* daltonise, the choice of the two matrices
dalton_lms_sim_matrix(cb_type) ==
  IF cb_type = "protanope" THEN LMS_PROTANOPE_V
  ELSE IF cb_type = "deuteranope" THEN LMS_DEUTERANOPE_V
  ELSE LMS_TRITANOPE_V

\* a choice of the error matrix that is one deficiency type off
dalton_error_matrix_shifted(cb_type) ==
  IF cb_type = "protanope" THEN DALTON_ERROR_TO_DELTA_D
  ELSE IF cb_type = "deuteranope" THEN DALTON_ERROR_TO_DELTA_T
  ELSE DALTON_ERROR_TO_DELTA_P

dalton_error_matrix(cb_type) ==
  IF cb_type = "protanope" THEN DALTON_ERROR_TO_DELTA_P
  ELSE IF cb_type = "deuteranope" THEN DALTON_ERROR_TO_DELTA_D
  ELSE DALTON_ERROR_TO_DELTA_T

\* daltonise, what the deficient viewer perceives: rgb_sim
dalton_rgb_sim(rgb, cb_type) == simulate_v(rgb, dalton_lms_sim_matrix(cb_type))

\* daltonise, the correction delta: rgb_delta
dalton_delta(rgb, cb_type, strength) ==
  LET rgb_sim == simulate_v(rgb, dalton_lms_sim_matrix(cb_type))
      error   == VSub(rgb, rgb_sim)
  IN MulVec(dalton_error_matrix(cb_type), VScale(error, strength))

\* daltonise, from the delta to the colour returned
dalton_rgb_out(rgb, rgb_delta) == Clamp(VAdd(rgb, rgb_delta))

daltonise(rgb, cb_type, strength) ==
  dalton_rgb_out(rgb, dalton_delta(rgb, cb_type, strength))

\* correct, the tuning values: amount_recip
amount_recip ==
  << Dec(0, 25000000, 0000), Minus(0, 30000000, 0000), Minus(0, 07000000, 0000) >>

\* correct, the scaled error of the affected channel: error
correct_error(lms, cb_type, strength) ==
  LET org_elt == lms[channel_map(cb_type) + 1]
      sim_elt == Dot(Row(LMS_SIMULATE, channel_map(cb_type)), lms)
  IN FMul(strength, FSub(org_elt, sim_elt))

\* a multiplier that never sets the brightness component of the affected
\* channel
correct_final_redistribution_only(cb_type, strength) ==
  LET channel   == channel_map(cb_type)
      amount    == FNeg(ToPrec(amount_recip[channel + 1], strength))
      recip_col == Col(NC_DELTA_RECIP, channel)
      factor    == FMul(FMul(strength, strength), amount)
  IN << FMul(ToPrec(recip_col[1], factor), factor),
        FMul(ToPrec(recip_col[2], factor), factor),
        FMul(ToPrec(recip_col[3], factor), factor) >>

\* correct, the per-channel multiplier: correct_final
correct_final(cb_type, strength) ==
  LET channel     == channel_map(cb_type)
      mc          == FMul(strength, strength)
      ms          == FSub(FInt(1, strength), strength)
      amount      == FNeg(ToPrec(amount_recip[channel + 1], strength))
      recip_col   == Col(NC_DELTA_RECIP, channel)
      factor      == FMul(mc, amount)
      correct_vec == << FMul(ToPrec(recip_col[1], factor), factor),
                        FMul(ToPrec(recip_col[2], factor), factor),
                        FMul(ToPrec(recip_col[3], factor), factor) >>
  IN [correct_vec EXCEPT ![channel + 1] = FMul(ms, FInt(2, ms))]

\* correct, from lms to lms_corrected
correct_lms_step(lms, cb_type, strength) ==
  VAdd(lms, VScale(correct_final(cb_type, strength),
                   correct_error(lms, cb_type, strength)))

\* correct, to the LMS vector it starts from: lms
correct_lms_in(rgb) == MulVec(LMS_FROM_RGB, to_linear(rgb))

correct(rgb, cb_type, strength) ==
  rgb_from_lms(correct_lms_step(correct_lms_in(rgb), cb_type, strength))

\* the dispatch table of create_lut: transform_func
transform_func(operation, rgb, cb_type, strength) ==
  CASE operation = "simulate"  -> simulate(rgb, cb_type, strength)
    [] operation = "daltonise" -> daltonise(rgb, cb_type, strength)
    [] operation = "correct"   -> correct(rgb, cb_type, strength)

\* what a call that returned `value` leaves in result
Returned(value) == [exc |-> "none", value |-> value]

-----------------------------------------------------------------------------
(* a call of simulate, daltonise or correct, statement by statement; frame
   holds the local variables the statements have set *)

TransformCall(operation, rgb, cb_type, strength) ==
  /\ pc = "idle"
  /\ pc' = "transform"
  /\ args' = [fn |-> operation, rgb |-> rgb, cb_type |-> cb_type,
              strength |-> strength]
  /\ frame' = <<>>
  /\ UNCHANGED <<lut_data, files, files0, result>>
  /\ UNCHANGED plugin_vars

SimulateToLms ==
  /\ pc = "transform" /\ args.fn = "simulate"
  /\ pc' = "lms"
  /\ frame' = [lms |-> simulate_lms_in(args.rgb)]
  /\ UNCHANGED <<args, lut_data, files, files0, result>>
  /\ UNCHANGED plugin_vars

SimulateInterpolate ==
  /\ pc = "lms" /\ args.fn = "simulate"
  /\ pc' = "lms_out"
  /\ frame' = [lms |-> frame.lms,
               lms_sim |-> simulate_lms_step(frame.lms, args.cb_type, args.strength)]
  /\ UNCHANGED <<args, lut_data, files, files0, result>>
  /\ UNCHANGED plugin_vars

SimulateReturn ==
  /\ pc = "lms_out" /\ args.fn = "simulate"
  /\ pc' = "returned"
  /\ result' = Returned(rgb_from_lms(frame.lms_sim))
  /\ UNCHANGED <<args, lut_data, files, files0, frame>>
  /\ UNCHANGED plugin_vars

CorrectToLms ==
  /\ pc = "transform" /\ args.fn = "correct"
  /\ pc' = "lms"
  /\ frame' = [lms |-> correct_lms_in(args.rgb)]
  /\ UNCHANGED <<args, lut_data, files, files0, result>>
  /\ UNCHANGED plugin_vars

CorrectApply ==
  /\ pc = "lms" /\ args.fn = "correct"
  /\ pc' = "lms_out"
  /\ frame' = [lms |-> frame.lms,
               error |-> correct_error(frame.lms, args.cb_type, args.strength),
               correct_final |-> correct_final(args.cb_type, args.strength),
               lms_corrected |-> correct_lms_step(frame.lms, args.cb_type,
                                                  args.strength)]
  /\ UNCHANGED <<args, lut_data, files, files0, result>>
  /\ UNCHANGED plugin_vars

CorrectReturn ==
  /\ pc = "lms_out" /\ args.fn = "correct"
  /\ pc' = "returned"
  /\ result' = Returned(rgb_from_lms(frame.lms_corrected))
  /\ UNCHANGED <<args, lut_data, files, files0, frame>>
  /\ UNCHANGED plugin_vars

DaltoniseDelta ==
  /\ pc = "transform" /\ args.fn = "daltonise"
  /\ pc' = "delta"
  /\ frame' = [rgb_sim |-> dalton_rgb_sim(args.rgb, args.cb_type),
               error |-> VSub(args.rgb, dalton_rgb_sim(args.rgb, args.cb_type)),
               rgb_delta |-> dalton_delta(args.rgb, args.cb_type, args.strength)]
  /\ UNCHANGED <<args, lut_data, files, files0, result>>
  /\ UNCHANGED plugin_vars

DaltoniseReturn ==
  /\ pc = "delta" /\ args.fn = "daltonise"
  /\ pc' = "returned"
  /\ result' = Returned(dalton_rgb_out(args.rgb, frame.rgb_delta))
  /\ UNCHANGED <<args, lut_data, files, files0, frame>>
  /\ UNCHANGED plugin_vars

-----------------------------------------------------------------------------
(* create_lut *)

\* LUTs of more than MaxSampleSize^3 entries are validated, not sampled
MaxSampleSize == 16

\* sampling at the lower corner of the cell: index * scale
sample_point_corner(index, lut_size, strength) ==
  FMul(FInt(index, strength), FDivInt(FInt(1, strength), lut_size))

\* (index + 0.5) * scale, with scale = 1.0 / lut_size; a float of the
\* precision of strength
sample_point(index, lut_size, strength) ==
  FMul(FHalfMore(index, strength), FDivInt(FInt(1, strength), lut_size))

\* the loop body: the entry appended for r_idx, g_idx, b_idx
lut_entry(cb_type, operation, strength, lut_size, r_idx, g_idx, b_idx) ==
  LET rgb_in  == << sample_point(r_idx, lut_size, strength),
                    sample_point(g_idx, lut_size, strength),
                    sample_point(b_idx, lut_size, strength) >>
      rgb_out == transform_func(operation, rgb_in, cb_type, strength)
  IN Clamp(rgb_out)

\* for b_idx in range(lut_size): what the innermost loop appends
b_loop(cb_type, operation, strength, lut_size, r_idx, g_idx) ==
  [b \in 1..lut_size |->
     lut_entry(cb_type, operation, strength, lut_size, r_idx, g_idx, b - 1)]

\* for g_idx in range(lut_size): what the iterations from g_idx on append
RECURSIVE g_loop(_, _, _, _, _, _)
g_loop(cb_type, operation, strength, lut_size, r_idx, g_idx) ==
  IF g_idx >= lut_size THEN <<>>
  ELSE b_loop(cb_type, operation, strength, lut_size, r_idx, g_idx)
         \o g_loop(cb_type, operation, strength, lut_size, r_idx, g_idx + 1)

\* for r_idx in range(lut_size): what the iterations from r_idx on append
RECURSIVE r_loop(_, _, _, _, _)
r_loop(cb_type, operation, strength, lut_size, r_idx) ==
  IF r_idx >= lut_size THEN <<>>
  ELSE g_loop(cb_type, operation, strength, lut_size, r_idx, 0)
         \o r_loop(cb_type, operation, strength, lut_size, r_idx + 1)

\* the list create_lut returns
create_lut(cb_type, operation, strength, lut_size) ==
  r_loop(cb_type, operation, strength, lut_size, 0)

\* create_lut is called on its own
CreateLutCall(cb_type, operation, strength, lut_size) ==
  /\ pc = "idle"
  /\ pc' = "sample"
  /\ args' = [fn |-> "create_lut", cb_type |-> cb_type, operation |-> operation,
              strength |-> strength, lut_size |-> lut_size]
  /\ UNCHANGED <<lut_data, files, files0, result, frame>>
  /\ UNCHANGED plugin_vars

\* create_lut runs, for its caller or for generate_lut (line 533)
CreateLut ==
  /\ pc = "sample"
  /\ args.lut_size <= MaxSampleSize
  /\ LET lut == create_lut(args.cb_type, args.operation, args.strength,
                           args.lut_size)
     IN IF args.fn = "generate_lut"
        THEN pc' = "write" /\ lut_data' = lut /\ UNCHANGED result
        ELSE pc' = "returned" /\ result' = Returned(lut) /\ UNCHANGED lut_data
  /\ UNCHANGED <<args, files, files0, frame>>
  /\ UNCHANGED plugin_vars

-----------------------------------------------------------------------------
(* write_cube_file *)

\* a * k for an integer k in 0..10^4
FMulInt(a, k) == Norm([i \in 1..Len(a) |-> a[i] * k])

\* f'{x:.6f}' and f'{x:.2f}': the decimal with `digits` digits nearest to x, as
\* the integer x * 10^digits (digits is 2 or 6, x is in 0..100)
Format(x, digits) ==
  LET hundredfold == FMulInt(x, 100)
      scaled      == IF digits = 2 THEN hundredfold
                     ELSE FMulInt(FMulInt(hundredfold, 100), 100)
  IN FAdd(scaled, FHalfMore(0, scaled))[1]

title_line(title) == [kind |-> "TITLE", text |-> title]

size_line(lut_size) == [kind |-> "LUT_3D_SIZE", size |-> lut_size]

row_line(entry) ==
  [kind |-> "row", r |-> Format(entry[1], 6), g |-> Format(entry[2], 6),
   b |-> Format(entry[3], 6)]

\* a writer that ends the file with an empty line
cube_lines_trailing_blank(data, lut_size, title) ==
  <<title_line(title), size_line(lut_size)>>
    \o [i \in 1..Len(data) |-> row_line(data[i])]
    \o <<[kind |-> "blank"]>>

\* a failing write leaves at most MaxPartialLines lines in the file
MaxPartialLines == 3

\* everything write_cube_file writes, in order
cube_lines(data, lut_size, title) ==
  <<title_line(title), size_line(lut_size)>>
    \o [i \in 1..Len(data) |-> row_line(data[i])]

\* the file system with `path` holding `lines`
WithFile(fs, path, lines) ==
  [p \in (DOMAIN fs) \cup {path} |-> IF p = path THEN lines ELSE fs[p]]

-----------------------------------------------------------------------------
(* generate_lut *)

\* output_path = None
NoPath == <<>>

valid_cb_types == <<"protanope", "deuteranope", "tritanope">>

valid_operations == <<"simulate", "daltonise", "correct">>

valid_lut_sizes == <<16, 32, 64>>

Elements(seq) == {seq[i] : i \in 1..Len(seq)}

\* checks that let any strength of at least 0.0 pass
validation_error_no_upper_bound(a) ==
  IF a.cb_type \notin Elements(valid_cb_types)
  THEN [exc |-> "ValueError", field |-> "cb_type", allowed |-> valid_cb_types]
  ELSE IF a.operation \notin Elements(valid_operations)
  THEN [exc |-> "ValueError", field |-> "operation", allowed |-> valid_operations]
  ELSE IF ~FLeq(FInt(0, a.strength), a.strength)
  THEN [exc |-> "ValueError", field |-> "strength", allowed |-> <<0, 1>>]
  ELSE IF a.lut_size \notin Elements(valid_lut_sizes)
  THEN [exc |-> "ValueError", field |-> "lut_size", allowed |-> valid_lut_sizes]
  ELSE [exc |-> "none"]

\* checks that look at lut_size before strength
validation_error_size_first(a) ==
  IF a.cb_type \notin Elements(valid_cb_types)
  THEN [exc |-> "ValueError", field |-> "cb_type", allowed |-> valid_cb_types]
  ELSE IF a.operation \notin Elements(valid_operations)
  THEN [exc |-> "ValueError", field |-> "operation", allowed |-> valid_operations]
  ELSE IF a.lut_size \notin Elements(valid_lut_sizes)
  THEN [exc |-> "ValueError", field |-> "lut_size", allowed |-> valid_lut_sizes]
  ELSE IF ~(FLeq(FInt(0, a.strength), a.strength) /\ FLeq(a.strength, FInt(1, a.strength)))
  THEN [exc |-> "ValueError", field |-> "strength", allowed |-> <<0, 1>>]
  ELSE [exc |-> "none"]

\* the checks of lines 513-526, in their order: the ValueError raised, or
\* "none"
validation_error(a) ==
  IF a.cb_type \notin Elements(valid_cb_types)
  THEN [exc |-> "ValueError", field |-> "cb_type", allowed |-> valid_cb_types]
  ELSE IF a.operation \notin Elements(valid_operations)
  THEN [exc |-> "ValueError", field |-> "operation", allowed |-> valid_operations]
  ELSE IF ~(FLeq(FInt(0, a.strength), a.strength) /\ FLeq(a.strength, FInt(1, a.strength)))
  THEN [exc |-> "ValueError", field |-> "strength", allowed |-> <<0, 1>>]
  ELSE IF a.lut_size \notin Elements(valid_lut_sizes)
  THEN [exc |-> "ValueError", field |-> "lut_size", allowed |-> valid_lut_sizes]
  ELSE [exc |-> "none"]

\* f"{cb_type}_{operation}_{int(strength*100)}.cube"
default_path(a) ==
  <<a.cb_type, "_", a.operation, "_", FMul(a.strength, FInt(100, a.strength))[1], ".cube">>

\* str.capitalize on the names that pass validation
capitalize(word) ==
  CASE word = "protanope"   -> "Protanope"
    [] word = "deuteranope" -> "Deuteranope"
    [] word = "tritanope"   -> "Tritanope"
    [] word = "simulate"    -> "Simulate"
    [] word = "daltonise"   -> "Daltonise"
    [] word = "correct"     -> "Correct"

\* f"{cb_type.capitalize()} {operation.capitalize()} (strength={strength:.2f})"
cube_title(a) ==
  <<capitalize(a.cb_type), " ", capitalize(a.operation), " (strength=",
    Format(a.strength, 2), ")">>

\* generate_lut is called; files0 records the file system the call finds
GenerateLutCall(cb_type, operation, strength, output_path, lut_size) ==
  /\ pc = "idle"
  /\ pc' = "validate"
  /\ args' = [fn |-> "generate_lut", cb_type |-> cb_type, operation |-> operation,
              strength |-> strength, output_path |-> output_path,
              lut_size |-> lut_size]
  /\ files0' = files
  /\ UNCHANGED <<lut_data, files, result, frame>>
  /\ UNCHANGED plugin_vars

\* a generate_lut that opens the output file before it checks its arguments
GenerateLutValidateAfterOpen ==
  /\ pc = "validate"
  /\ files' = WithFile(files, IF args.output_path = NoPath THEN default_path(args)
                                ELSE args.output_path, <<>>)
  /\ LET e == validation_error(args)
     IN IF e.exc # "none"
        THEN /\ pc' = "raised"
             /\ result' = e
             /\ UNCHANGED args
        ELSE /\ pc' = "sample"
             /\ args' = [args EXCEPT !.output_path =
                            IF @ = NoPath THEN default_path(args) ELSE @]
             /\ UNCHANGED result
  /\ UNCHANGED <<lut_data, files0, frame>>
  /\ UNCHANGED plugin_vars

\* lines 513-530: the four checks, then the default output path
GenerateLutValidate ==
  /\ pc = "validate"
  /\ LET e == validation_error(args)
     IN IF e.exc # "none"
        THEN /\ pc' = "raised"
             /\ result' = e
             /\ UNCHANGED args
        ELSE /\ pc' = "sample"
             /\ args' = [args EXCEPT !.output_path =
                            IF @ = NoPath THEN default_path(args) ELSE @]
             /\ UNCHANGED result
  /\ UNCHANGED <<lut_data, files, files0, frame>>
  /\ UNCHANGED plugin_vars

\* lines 536-541 and write_cube_file: open(output_path, 'w') fails and leaves
\* the file system as it is, or creates or truncates the file; a write fails
\* with the first `written` lines in the file, or all are written and
\* generate_lut returns output_path
GenerateLutWrite ==
  /\ pc = "write"
  /\ LET all == cube_lines(lut_data, args.lut_size, cube_title(args))
     IN \/ /\ pc' = "raised"
           /\ result' = [exc |-> "OSError", field |-> "open", allowed |-> <<>>]
           /\ UNCHANGED files
        \/ \E written \in 0..MaxPartialLines :
             /\ written < Len(all)
             /\ pc' = "raised"
             /\ result' = [exc |-> "OSError", field |-> "write", allowed |-> <<>>]
             /\ files' = WithFile(files, args.output_path, SubSeq(all, 1, written))
        \/ /\ pc' = "returned"
           /\ result' = Returned(args.output_path)
           /\ files' = WithFile(files, args.output_path, all)
  /\ UNCHANGED <<args, lut_data, files0, frame>>
  /\ UNCHANGED plugin_vars

-----------------------------------------------------------------------------
(* the specification of generate_lut: one call, on a file system that
   already holds a file at the path the caller may give; floats of 4
   decimals *)

F2(int, f4) == <<int, f4>>

GenCBTypes == {"protanope", "deuteranope", "tritanope", "achromat"}

GenOperations == {"simulate", "daltonise", "correct", "invert"}

GenStrengths == {F2(0, 0), F2(0, 5000), F2(1, 0), F2(1, 5000), FNeg(F2(0, 1))}

GenPaths == {NoPath, <<"lut.cube">>}

GenSizes == {10, 16, 32, 64, 128}

Call(cb_type, operation, strength, output_path, lut_size) ==
  [cb_type |-> cb_type, operation |-> operation, strength |-> strength,
   output_path |-> output_path, lut_size |-> lut_size]

\* the calls that are followed through sampling and writing
SampledCalls ==
  { Call("deuteranope", "correct", F2(1, 0), NoPath, 16),
    Call("protanope", "simulate", F2(0, 5000), <<"lut.cube">>, 16),
    Call("tritanope", "daltonise", F2(1, 0), <<"lut.cube">>, 16) }

\* the calls explored: every combination of the values above, except that of
\* the calls whose four checked arguments are all as the signature documents
\* them and whose LUT is small enough to be sampled, only SampledCalls are
\* made
GenCalls ==
  { c \in [cb_type : GenCBTypes, operation : GenOperations,
           strength : GenStrengths, output_path : GenPaths, lut_size : GenSizes] :
      ( /\ c.cb_type \in CBTypes
        /\ c.operation \in Operations
        /\ c.strength \in {F2(0, 0), F2(0, 5000), F2(1, 0)}
        /\ c.lut_size \in {16, 32, 64}
        /\ c.lut_size <= MaxSampleSize )
      => c \in SampledCalls }

-----------------------------------------------------------------------------
(* ConfigManager (src/py_modules/colorblind_plugin/plugin_config.py).  The
   parser holds text: a section is a function from option names to texts,
   and a text is the sequence of its characters.  The files explored are
   those _save wrote, whole or with options missing; a text that is no
   boolean or number makes the getters of the code raise ValueError. *)

Digits == <<"0", "1", "2", "3", "4", "5", "6", "7", "8", "9">>

Upper == <<"A", "B", "C", "D", "E", "F", "G", "H", "I", "J", "K", "L", "M",
           "N", "O", "P", "Q", "R", "S", "T", "U", "V", "W", "X", "Y", "Z">>

Lower == <<"a", "b", "c", "d", "e", "f", "g", "h", "i", "j", "k", "l", "m",
           "n", "o", "p", "q", "r", "s", "t", "u", "v", "w", "x", "y", "z">>

\* str(n) for n >= 0
RECURSIVE str_nat(_)
str_nat(n) ==
  IF n < 10 THEN <<Digits[n + 1]>>
  ELSE str_nat(n \div 10) \o <<Digits[(n % 10) + 1]>>

\* str(n) of an int
str_int(n) == IF n < 0 THEN <<"-">> \o str_nat(-n) ELSE str_nat(n)

\* str(b) of a bool
str_bool(b) == IF b THEN <<"T", "r", "u", "e">> ELSE <<"F", "a", "l", "s", "e">>

\* the decimals of a float repr: no trailing zeros, at least one digit
RECURSIVE strip_zeros(_)
strip_zeros(text) ==
  IF Len(text) > 1 /\ text[Len(text)] = "0"
  THEN strip_zeros(SubSeq(text, 1, Len(text) - 1))
  ELSE text

\* str(x) of a float of 4 decimals: sign, integer part, ".", decimals
str_float(x) ==
  LET m == IF x[1] < 0 THEN FNeg(x) ELSE x
      decimals == <<Digits[(m[2] \div 1000) + 1], Digits[((m[2] \div 100) % 10) + 1],
                    Digits[((m[2] \div 10) % 10) + 1], Digits[(m[2] % 10) + 1]>>
  IN (IF x[1] < 0 THEN <<"-">> ELSE <<>>)
       \o str_nat(m[1]) \o <<".">> \o strip_zeros(decimals)

DigitValue(ch) == CHOOSE d \in 0..9 : Digits[d + 1] = ch

RECURSIVE nat_of(_)
nat_of(text) ==
  IF Len(text) = 0 THEN 0
  ELSE nat_of(SubSeq(text, 1, Len(text) - 1)) * 10 + DigitValue(text[Len(text)])

\* int(text)
int_of(text) ==
  IF text[1] = "-" THEN 0 - nat_of(Tail(text)) ELSE nat_of(text)

\* float(text), to 4 decimals
float_of(text) ==
  LET unsigned == IF text[1] = "-" THEN Tail(text) ELSE text
      dots     == {i \in 1..Len(unsigned) : unsigned[i] = "."}
      dot      == IF dots = {} THEN Len(unsigned) + 1 ELSE CHOOSE i \in dots : TRUE
      decimals == [i \in 1..4 |-> IF dot + i <= Len(unsigned)
                                  THEN unsigned[dot + i] ELSE "0"]
      m        == <<nat_of(SubSeq(unsigned, 1, dot - 1)), nat_of(decimals)>>
  IN IF text[1] = "-" THEN FNeg(m) ELSE m

\* str.lower
lower(text) ==
  [i \in 1..Len(text) |->
     IF \E k \in 1..26 : Upper[k] = text[i]
     THEN Lower[CHOOSE k \in 1..26 : Upper[k] = text[i]]
     ELSE text[i]]

\* RawConfigParser.BOOLEAN_STATES
BOOLEAN_STATES ==
  [t \in {<<"1">>, <<"y", "e", "s">>, <<"t", "r", "u", "e">>, <<"o", "n">>,
          <<"0">>, <<"n", "o">>, <<"f", "a", "l", "s", "e">>, <<"o", "f", "f">>}
     |-> t \in {<<"1">>, <<"y", "e", "s">>, <<"t", "r", "u", "e">>, <<"o", "n">>}]

\* section.getboolean / get / getfloat / getint with their fallbacks
getboolean(section, option, fallback) ==
  IF option \in DOMAIN section THEN BOOLEAN_STATES[lower(section[option])]
  ELSE fallback

get(section, option, fallback) ==
  IF option \in DOMAIN section THEN section[option] ELSE fallback

getfloat(section, option, fallback) ==
  IF option \in DOMAIN section THEN float_of(section[option]) ELSE fallback

getint(section, option, fallback) ==
  IF option \in DOMAIN section THEN int_of(section[option]) ELSE fallback

CorrectionConfig(enabled, cb_type, operation, strength, lut_size) ==
  [enabled |-> enabled, cb_type |-> cb_type, operation |-> operation,
   strength |-> strength, lut_size |-> lut_size]

GLOBAL_GAME_ID == <<"GLOBAL">>

\* None, as a game_id and as the result of _get_game_section; a game_id that
\* is given is <<text>>
None == <<>>

NoFile == [exists |-> FALSE]

_get_default_config ==
  CorrectionConfig(TRUE, "deuteranope", "correct", <<1, 0>>, 32)

\* f"game_{game_id}"
_get_game_section_name(game_id) == "game_" \o game_id[1]

\* <<the configuration read>>, or None if the section is missing
_get_game_section(sections, game_id) ==
  LET section_name == _get_game_section_name(game_id)
  IN IF section_name \notin DOMAIN sections THEN None
     ELSE LET section == sections[section_name]
          IN <<CorrectionConfig(getboolean(section, "enabled", TRUE),
                                get(section, "cb_type", "protanope"),
                                get(section, "operation", "correct"),
                                getfloat(section, "strength", <<1, 0>>),
                                getint(section, "lut_size", 32))>>

\* the sections with one more, or one replaced
WithSection(sections, section_name, section) ==
  [n \in (DOMAIN sections) \cup {section_name} |->
     IF n = section_name THEN section ELSE sections[n]]

\* the sections after _set_game_section(game_id, c)
_set_game_section(sections, game_id, c) ==
  LET section_name == _get_game_section_name(game_id)
      section == IF section_name \in DOMAIN sections THEN sections[section_name]
                 ELSE <<>>
  IN WithSection(sections, section_name,
       [o \in (DOMAIN section) \cup {"enabled", "cb_type", "operation", "strength",
                                     "lut_size"} |->
          CASE o = "enabled"   -> str_bool(c.enabled)
            [] o = "cb_type"   -> c.cb_type
            [] o = "operation" -> c.operation
            [] o = "strength"  -> str_float(c.strength)
            [] o = "lut_size"  -> str_int(c.lut_size)
            [] OTHER           -> section[o]])

\* the sections after _create_default_config, before _save
_create_default_config(sections) ==
  _set_game_section(WithSection(sections, "global", <<>>), GLOBAL_GAME_ID,
                    _get_default_config)

\* the file _save leaves
_save(sections) == [exists |-> TRUE, sections |-> sections]

\* __init__: the parser and the file after construction on `file`
ConfigManager(file) ==
  IF file.exists
  THEN LET read == file.sections
           with_global == IF "global" \in DOMAIN read THEN read
                          ELSE WithSection(read, "global", <<>>)
       IN IF _get_game_section_name(GLOBAL_GAME_ID) \notin DOMAIN with_global
          THEN LET set == _set_game_section(with_global, GLOBAL_GAME_ID,
                                            _get_default_config)
               IN [config |-> set, config_file |-> _save(set)]
          ELSE [config |-> with_global, config_file |-> file]
  ELSE [config |-> _create_default_config(<<>>),
        config_file |-> _save(_create_default_config(<<>>))]

\* a get_config that answers a game without a section with the defaults
get_config_defaults(sections, game_id) ==
  LET id == IF game_id = None THEN GLOBAL_GAME_ID ELSE game_id
      game_config == _get_game_section(sections, id)
  IN IF game_config # None THEN game_config[1] ELSE _get_default_config

\* what get_config(game_id) returns
get_config(sections, game_id) ==
  LET id == IF game_id = None THEN GLOBAL_GAME_ID ELSE game_id
      game_config == _get_game_section(sections, id)
      global_config == _get_game_section(sections, GLOBAL_GAME_ID)
  IN IF game_config # None THEN game_config[1]
     ELSE IF global_config = None THEN _get_default_config
     ELSE global_config[1]

\* no call is in flight
Ready == pc \in {"idle", "returned", "raised"} /\ request = [fn |-> "none"]

\* lines 118-147
GetConfig(game_id) ==
  /\ Ready
  /\ pc' = "returned"
  /\ args' = [fn |-> "get_config", game_id |-> game_id]
  /\ result' = Returned(get_config(config, game_id))
  /\ config0' = config
  /\ UNCHANGED <<lut_data, files, files0, frame, config, config_file, looks, request>>

\* lines 149-161; _save writes the file or fails on open
SetConfig(c, game_id) ==
  /\ Ready
  /\ args' = [fn |-> "set_config", config |-> c, game_id |-> game_id]
  /\ config0' = config
  /\ config' = _set_game_section(config, IF game_id = None THEN GLOBAL_GAME_ID
                                         ELSE game_id, c)
  /\ \/ /\ config_file' = _save(config')
        /\ pc' = "returned"
        /\ result' = Returned(None)
     \/ /\ pc' = "raised"
        /\ result' = [exc |-> "OSError", field |-> "open", allowed |-> <<>>]
        /\ UNCHANGED config_file
  /\ UNCHANGED <<lut_data, files, files0, frame, looks, request>>

\* lines 163-180
Reset(game_id) ==
  /\ Ready
  /\ args' = [fn |-> "reset", game_id |-> game_id]
  /\ config0' = config
  /\ config' = IF game_id = None THEN _create_default_config(<<>>)
               ELSE _set_game_section(config, game_id, _get_default_config)
  /\ \/ /\ config_file' = _save(config')
        /\ pc' = "returned"
        /\ result' = Returned(None)
     \/ /\ pc' = "raised"
        /\ result' = [exc |-> "OSError", field |-> "open", allowed |-> <<>>]
        /\ UNCHANGED config_file
  /\ UNCHANGED <<lut_data, files, files0, frame, looks, request>>

-----------------------------------------------------------------------------
(* Plugin.apply_configuration (src/main.py).  The settings store it reads,
   ColorBlindSettings, is known by its interface only: a store keyed by an
   optional per-application identifier with a global fallback scope. *)

\* os.path.join(decky.DECKY_PLUGIN_RUNTIME_DIR, "lut.cube"), relative to that
\* directory
lut_path == <<"lut.cube">>

\* the empty path ""
EmptyPath == <<"">>

\* the exit codes of gamescopectl
ReturnCodes == {0, 1}

\* the configuration the store resolves app_id to: its own entry, else the
\* one of the global scope
get_game_config(sections, app_id) == get_config(sections, app_id)

\* the calls of gamescopectl after set_look(filename); the exit code is
\* logged and not acted on
set_look(calls, filename, returncode) ==
  Append(calls, [filename |-> filename, returncode |-> returncode])

reset_look(calls, returncode) == set_look(calls, EmptyPath, returncode)

\* apply_configuration(app_id) is called
ApplyConfigurationCall(app_id) ==
  /\ pc = "idle" /\ request = [fn |-> "none"]
  /\ pc' = "apply"
  /\ request' = [fn |-> "apply_configuration", app_id |-> app_id]
  /\ UNCHANGED <<args, lut_data, files, files0, result, frame,
                 config, config0, config_file, looks>>

\* an apply_configuration that sets the look before it generates the LUT
ApplyResolveLookFirst ==
  /\ pc = "apply"
  /\ LET correction_config == get_game_config(config, request.app_id)
     IN IF ~correction_config.enabled
        THEN /\ \E returncode \in ReturnCodes :
                  looks' = reset_look(looks, returncode)
             /\ pc' = "applied"
             /\ result' = Returned(None)
             /\ UNCHANGED <<args, files0>>
        ELSE /\ \E returncode \in ReturnCodes :
                  looks' = set_look(looks, lut_path, returncode)
             /\ pc' = "validate"
             /\ args' = [fn |-> "generate_lut",
                         cb_type |-> correction_config.cb_type,
                         operation |-> correction_config.operation,
                         strength |-> correction_config.strength,
                         output_path |-> lut_path,
                         lut_size |-> correction_config.lut_size]
             /\ files0' = files
             /\ UNCHANGED result
  /\ UNCHANGED <<lut_data, files, frame, config, config0, config_file, request>>

\* lines 29-45: the configuration is resolved; disabled, the look is reset
\* and the call returns; enabled, generate_lut is called with the LUT path
ApplyResolve ==
  /\ pc = "apply"
  /\ LET correction_config == get_game_config(config, request.app_id)
     IN IF ~correction_config.enabled
        THEN /\ \E returncode \in ReturnCodes :
                  looks' = reset_look(looks, returncode)
             /\ pc' = "applied"
             /\ result' = Returned(None)
             /\ UNCHANGED <<args, files0>>
        ELSE /\ pc' = "validate"
             /\ args' = [fn |-> "generate_lut",
                         cb_type |-> correction_config.cb_type,
                         operation |-> correction_config.operation,
                         strength |-> correction_config.strength,
                         output_path |-> lut_path,
                         lut_size |-> correction_config.lut_size]
             /\ files0' = files
             /\ UNCHANGED <<result, looks>>
  /\ UNCHANGED <<lut_data, files, frame, config, config0, config_file, request>>

\* lines 46-47: generate_lut has returned; the look is set to the LUT path
\* and the call returns.  (When generate_lut raised, the exception leaves
\* apply_configuration: pc stays "raised".)
ApplySetLook ==
  /\ pc = "returned" /\ request.fn = "apply_configuration"
  /\ \E returncode \in ReturnCodes :
       looks' = set_look(looks, lut_path, returncode)
  /\ pc' = "applied"
  /\ result' = Returned(None)
  /\ UNCHANGED <<args, lut_data, files, files0, frame,
                 config, config0, config_file, request>>

StaleLines ==
  << title_line(<<"old">>), size_line(1), [kind |-> "row", r |-> 0, g |-> 0, b |-> 0],
     [kind |-> "row", r |-> 1, g |-> 1, b |-> 1] >>

\* the path given holds an older file; no default path exists yet
InitialFiles == [p \in {<<"lut.cube">>} |-> StaleLines]

NoCall == [fn |-> "none"]

Init ==
  /\ pc = "idle"
  /\ args = NoCall
  /\ lut_data = <<>>
  /\ files = InitialFiles
  /\ files0 = files
  /\ result = [exc |-> "none"]
  /\ frame = <<>>
  /\ config = ConfigManager(NoFile).config
  /\ config0 = config
  /\ config_file = ConfigManager(NoFile).config_file
  /\ looks = <<>>
  /\ request = NoCall

Next ==
  \/ \E c \in GenCalls :
       GenerateLutCall(c.cb_type, c.operation, c.strength, c.output_path, c.lut_size)
  \/ GenerateLutValidate
  \/ CreateLut
  \/ GenerateLutWrite

Spec == Init /\ [][Next]_vars

-----------------------------------------------------------------------------
(* the specification of create_lut called on its own, with LUT sizes
   2^0 .. 2^MaxLutBits; floats of 4 decimals *)

MaxLutBits == 2

LutSizes == {2^k : k \in 0..MaxLutBits}

NextLut ==
  \/ \E cb_type \in CBTypes, operation \in Operations,
        strength \in {F2(0, 0), F2(0, 5000), F2(1, 0)}, lut_size \in LutSizes :
       CreateLutCall(cb_type, operation, strength, lut_size)
  \/ CreateLut

SpecLut == Init /\ [][NextLut]_vars

-----------------------------------------------------------------------------
(* the specification of the three transforms called on one colour; floats
   of 12 decimals *)

F4(int, f4, f8, f12) == <<int, f4, f8, f12>>

\* grid cells <<lut_size, r_idx, g_idx, b_idx>> of the LUT sizes generate_lut
\* accepts; the colours transformed are their sample points
XformCells ==
  { <<16, 0, 15, 15>>, <<16, 8, 3, 12>>, <<32, 0, 31, 31>>, <<32, 31, 16, 0>>,
    <<64, 0, 63, 63>>, <<64, 20, 40, 60>> }

CellColour(cell) ==
  << sample_point(cell[2], cell[1], F4(0, 0, 0, 0)),
     sample_point(cell[3], cell[1], F4(0, 0, 0, 0)),
     sample_point(cell[4], cell[1], F4(0, 0, 0, 0)) >>

XformStrengths == {F4(0, 0, 0, 0), F4(0, 5000, 0, 0), F4(1, 0, 0, 0)}

NextXform ==
  \/ \E operation \in Operations, cell \in XformCells, cb_type \in CBTypes,
        strength \in XformStrengths :
       TransformCall(operation, CellColour(cell), cb_type, strength)
  \/ SimulateToLms
  \/ SimulateInterpolate
  \/ SimulateReturn
  \/ CorrectToLms
  \/ CorrectApply
  \/ CorrectReturn
  \/ DaltoniseDelta
  \/ DaltoniseReturn

SpecXform == Init /\ [][NextXform]_vars

-----------------------------------------------------------------------------
(* properties of create_lut (SpecLut) *)

\* (index + 0.5) / N, the centre of cell `index` of N cells
CellCentre(index, N, like) == FDivInt(FHalfMore(index, like), N)

\* the colour the claim puts at cell <<r, g, b>> of the LUT of the call in args
CentreTransformed(r, g, b) ==
  LET N  == args.lut_size
      s  == args.strength
      at == <<CellCentre(r, N, s), CellCentre(g, N, s), CellCentre(b, N, s)>>
  IN Clamp(transform_func(args.operation, at, args.cb_type, s))

\* C1: create_lut returns exactly N^3 entries, and the entry at index
\* r*N^2 + g*N + b is the clamped transform of the cell centre
\* ((r+0.5)/N, (g+0.5)/N, (b+0.5)/N): R varies slowest, B fastest
C1_CentresInOrder ==
  (pc = "returned" /\ args.fn = "create_lut") =>
    LET N == args.lut_size
    IN /\ Len(result.value) = N * N * N
       /\ \A r \in 0..(N - 1), g \in 0..(N - 1), b \in 0..(N - 1) :
            result.value[r * N * N + g * N + b + 1] = CentreTransformed(r, g, b)

\* a LUT of more than one cell per axis was returned and is not constant
C1_Witness ==
  /\ pc = "returned" /\ args.fn = "create_lut" /\ args.lut_size = 4
  /\ Len(result.value) = 64
  /\ result.value[7] # result.value[25]

InUnit(x) == FLeq(FInt(0, x), x) /\ FLeq(x, FInt(1, x))

\* C3: every channel of every colour of the LUT create_lut builds lies in
\* [0.0, 1.0]
C3_ChannelsInUnit ==
  (pc = "returned" /\ args.fn = "create_lut") =>
    \A k \in 1..Len(result.value) : \A ch \in 1..3 : InUnit(result.value[k][ch])

\* a daltonise LUT was returned in which the clamp cut a channel down to 1.0
C3_Witness ==
  /\ pc = "returned" /\ args.fn = "create_lut" /\ args.operation = "daltonise"
  /\ \E k \in 1..Len(result.value) : \E ch \in 1..3 :
       /\ result.value[k][ch] = FInt(1, args.strength)
       /\ LET at == << sample_point((k - 1) \div (args.lut_size * args.lut_size),
                                    args.lut_size, args.strength),
                       sample_point(((k - 1) \div args.lut_size) % args.lut_size,
                                    args.lut_size, args.strength),
                       sample_point((k - 1) % args.lut_size,
                                    args.lut_size, args.strength) >>
          IN FLess(FInt(1, args.strength),
                   VAdd(at, dalton_delta(at, args.cb_type, args.strength))[ch])

-----------------------------------------------------------------------------
(* properties of generate_lut (Spec) *)

\* C2: after a successful generate_lut the file holds one TITLE line, the
\* line LUT_3D_SIZE N, and then exactly N^3 rows, the i-th row being the
\* i-th entry of the sampled LUT, and nothing else
C2_CubeFileLayout ==
  (pc = "returned" /\ args.fn = "generate_lut") =>
    LET N    == args.lut_size
        file == files[args.output_path]
    IN /\ Len(lut_data) = N * N * N
       /\ Len(file) = N * N * N + 2
       /\ file[1].kind = "TITLE"
       /\ file[2] = [kind |-> "LUT_3D_SIZE", size |-> N]
       /\ \A i \in 1..(N * N * N) :
            file[i + 2] = [kind |-> "row", r |-> Format(lut_data[i][1], 6),
                           g |-> Format(lut_data[i][2], 6),
                           b |-> Format(lut_data[i][3], 6)]

\* generate_lut returned after replacing the older file at the path given
C2_Witness ==
  /\ pc = "returned" /\ args.fn = "generate_lut"
  /\ args.output_path = <<"lut.cube">>
  /\ files0[args.output_path] = StaleLines
  /\ Len(files[args.output_path]) = 16 * 16 * 16 + 2

\* the declared domain of the four checked parameters
InDomain(a) ==
  /\ a.cb_type \in {"protanope", "deuteranope", "tritanope"}
  /\ a.operation \in {"simulate", "daltonise", "correct"}
  /\ FLeq(FInt(0, a.strength), a.strength) /\ FLeq(a.strength, FInt(1, a.strength))
  /\ a.lut_size \in {16, 32, 64}

\* C5: validation passes exactly when the four parameters are in their
\* domains, and then leaves them as given; it raises the validation error
\* exactly when one is not
C5_ValidationIffInDomain ==
  [][ pc = "validate" =>
        \/ /\ InDomain(args)
           /\ pc' = "sample"
           /\ args'.cb_type = args.cb_type /\ args'.operation = args.operation
           /\ args'.strength = args.strength /\ args'.lut_size = args.lut_size
        \/ /\ ~InDomain(args)
           /\ pc' = "raised" /\ result'.exc = "ValueError" ]_vars

\* a call whose only fault is strength = 1.5 was rejected
C5_Witness ==
  /\ pc = "raised" /\ result.exc = "ValueError"
  /\ args.cb_type = "protanope" /\ args.operation = "correct"
  /\ args.strength = F2(1, 5000) /\ args.lut_size = 32

\* C6: a call with a parameter out of its domain raises the validation
\* error before any sampling and before the output file is opened: the file
\* system stays as the call found it
C6_NoSamplingNoFile ==
  (args.fn = "generate_lut" /\ ~InDomain(args) /\ pc # "validate") =>
    /\ pc = "raised" /\ result.exc = "ValueError"
    /\ lut_data = <<>>
    /\ files = files0

\* a call with resolution 10 and the path of an older file was rejected, and
\* the older file is as it was
C6_Witness ==
  /\ pc = "raised" /\ result.exc = "ValueError"
  /\ args.lut_size = 10 /\ args.output_path = <<"lut.cube">>
  /\ files[<<"lut.cube">>] = StaleLines

\* the first parameter out of its domain, in the order deficiency type,
\* operation, strength, resolution
FirstInvalid(a) ==
  IF a.cb_type \notin {"protanope", "deuteranope", "tritanope"} THEN "cb_type"
  ELSE IF a.operation \notin {"simulate", "daltonise", "correct"} THEN "operation"
  ELSE IF ~InUnit(a.strength) THEN "strength"
  ELSE "lut_size"

\* C7: the validation error names a parameter that is out of its domain, the
\* first such in the order deficiency type, operation, strength, resolution,
\* with that parameter's allowed set or range
C7_FirstInvalidReported ==
  (pc = "raised" /\ result.exc = "ValueError") =>
    /\ ~InDomain(args)
    /\ result.field = FirstInvalid(args)
    /\ result.field = "cb_type" =>
         Elements(result.allowed) = {"protanope", "deuteranope", "tritanope"}
    /\ result.field = "operation" =>
         Elements(result.allowed) = {"simulate", "daltonise", "correct"}
    /\ result.field = "strength" => result.allowed = <<0, 1>>
    /\ result.field = "lut_size" => Elements(result.allowed) = {16, 32, 64}

\* strength and resolution were both out of domain, and strength was reported
C7_Witness ==
  /\ pc = "raised" /\ result.exc = "ValueError"
  /\ args.cb_type = "tritanope" /\ args.operation = "simulate"
  /\ args.strength = FNeg(F2(0, 1)) /\ args.lut_size = 128
  /\ result.field = "strength"

-----------------------------------------------------------------------------
(* properties of the transforms (SpecXform) *)

\* |a - b| <= tolerance
Within(a, b, tolerance) ==
  FLeq(FSub(a, b), tolerance) /\ FLeq(FSub(b, a), tolerance)

Tolerance == F4(0, 0, 100, 0)

\* C4: with strength = 0.0 each of simulate, daltonise and correct returns
\* its input, within 1e-6 on every channel
C4_StrengthZeroIdentity ==
  (pc = "returned" /\ args.fn \in Operations /\ args.strength = F4(0, 0, 0, 0)) =>
    \A ch \in 1..3 : Within(result.value[ch], args.rgb[ch], Tolerance)

\* the LMS channel the claims assign to a deficiency type, as a tuple index
SelectedChannel(cb_type) ==
  IF cb_type = "protanope" THEN 1 ELSE IF cb_type = "deuteranope" THEN 2 ELSE 3

\* C8: simulate changes only the selected LMS channel, to
\* original + strength * (simulated - original) with simulated the dot
\* product of the selected row of LMS_SIMULATE and the LMS vector; the LMS to
\* RGB conversion receives the other two channels unchanged
C8_OnlySelectedChannel ==
  (args.fn = "simulate" /\ pc \in {"lms_out", "returned"}) =>
    LET ch        == SelectedChannel(args.cb_type)
        original  == frame.lms[ch]
        simulated == Dot(LMS_SIMULATE[ch], frame.lms)
    IN /\ frame.lms_sim[ch] =
            FAdd(original, FMul(args.strength, FSub(simulated, original)))
       /\ \A other \in (1..3) \ {ch} : frame.lms_sim[other] = frame.lms[other]
       /\ pc = "returned" =>
            result.value = from_linear(Clamp(MulVec(RGB_FROM_LMS, frame.lms_sim)))

\* simulate for deuteranope at strength 0.5 returned, having moved the M
\* channel
C8_Witness ==
  /\ pc = "returned" /\ args.fn = "simulate" /\ args.cb_type = "deuteranope"
  /\ args.strength = F4(0, 5000, 0, 0)
  /\ frame.lms_sim[2] # frame.lms[2]

\* C9: at strength 1.0 the interpolation applied again to the LMS vector
\* simulate produced leaves the three channels as they are, the simulated
\* value being independent of the affected channel
C9_SecondPassFixed ==
  (args.fn = "simulate" /\ args.strength = F4(1, 0, 0, 0)
     /\ pc \in {"lms_out", "returned"}) =>
    /\ simulate_sim_value(frame.lms_sim, args.cb_type)
         = simulate_sim_value(frame.lms, args.cb_type)
    /\ simulate_lms_step(frame.lms_sim, args.cb_type, args.strength) = frame.lms_sim

\* a first pass at strength 1.0 that changed the LMS vector
C9_Witness ==
  /\ pc = "lms_out" /\ args.fn = "simulate" /\ args.strength = F4(1, 0, 0, 0)
  /\ frame.lms_sim # frame.lms

\* C10: correct multiplies the scaled error strength * (original - simulated)
\* by (1 - strength) * 2 on the affected channel and by
\* strength^2 * tuning constant * (entry of the affected column of
\* NC_DELTA_RECIP) on the others; at strength 1 the affected channel is left
\* unchanged, at strength 0 nothing is added
C10_Multiplier ==
  (args.fn = "correct" /\ pc \in {"lms_out", "returned"}) =>
    LET ch     == SelectedChannel(args.cb_type)
        s      == args.strength
        tuning == FNeg(ToPrec(amount_recip[ch], s))
        mixed  == FMul(FMul(s, s), tuning)
        error  == FMul(s, FSub(frame.lms[ch], Dot(LMS_SIMULATE[ch], frame.lms)))
    IN /\ frame.error = error
       /\ frame.correct_final[ch] = FMul(FSub(FInt(1, s), s), FInt(2, s))
       /\ \A other \in (1..3) \ {ch} :
            frame.correct_final[other]
              = FMul(ToPrec(NC_DELTA_RECIP[other][ch], s), mixed)
       /\ \A any \in 1..3 :
            frame.lms_corrected[any]
              = FAdd(frame.lms[any], FMul(frame.correct_final[any], error))
       /\ s = FInt(1, s) =>
            /\ frame.correct_final[ch] = FInt(0, s)
            /\ frame.lms_corrected[ch] = frame.lms[ch]
       /\ s = FInt(0, s) => frame.lms_corrected = frame.lms

\* correct for protanope at strength 1 redistributed a non-zero error
C10_Witness ==
  /\ pc = "lms_out" /\ args.fn = "correct" /\ args.cb_type = "protanope"
  /\ args.strength = F4(1, 0, 0, 0)
  /\ frame.error # F4(0, 0, 0, 0)
  /\ frame.lms_corrected # frame.lms
  /\ frame.lms_corrected[1] = frame.lms[1]

\* the error-to-delta matrix and the zeroing matrix the claims assign to a
\* deficiency type
ErrorToDelta(cb_type) ==
  IF cb_type = "protanope" THEN DALTON_ERROR_TO_DELTA_P
  ELSE IF cb_type = "deuteranope" THEN DALTON_ERROR_TO_DELTA_D
  ELSE DALTON_ERROR_TO_DELTA_T

Zeroing(cb_type) ==
  IF cb_type = "protanope" THEN LMS_PROTANOPE_V
  ELSE IF cb_type = "deuteranope" THEN LMS_DEUTERANOPE_V
  ELSE LMS_TRITANOPE_V

\* C11: the delta of daltonise is the error-to-delta matrix of the type times
\* strength * (original - simulated); its component on the deficient channel
\* is zero, and the output keeps the input's value on that channel
C11_DeficientChannelKept ==
  (args.fn = "daltonise" /\ pc \in {"delta", "returned"}) =>
    LET ch == SelectedChannel(args.cb_type)
    IN /\ frame.rgb_delta =
            MulVec(ErrorToDelta(args.cb_type),
                   VScale(VSub(args.rgb, frame.rgb_sim), args.strength))
       /\ frame.rgb_delta[ch] = FInt(0, args.strength)
       /\ pc = "returned" =>
            /\ result.value[ch] = args.rgb[ch]
            /\ \A other \in (1..3) \ {ch} :
                 result.value[other]
                   = ClampChannel(FAdd(args.rgb[other], frame.rgb_delta[other]))

\* daltonise for protanope at strength 1 returned a colour whose G and B
\* channels were moved
C11_Witness ==
  /\ pc = "returned" /\ args.fn = "daltonise" /\ args.cb_type = "protanope"
  /\ args.strength = F4(1, 0, 0, 0)
  /\ result.value[2] # args.rgb[2]
  /\ result.value[3] # args.rgb[3]
  /\ result.value[1] = args.rgb[1]

\* C12: simulate and correct go to LMS and back with the matrices of the
\* primary model and take the simulated value and the redistribution from
\* LMS_SIMULATE and NC_DELTA_RECIP; daltonise goes to LMS and back with the
\* matrices of the secondary model, with the zeroing and the error-to-delta
\* matrix of the requested type
C12_ModelsNotMixed ==
  /\ (args.fn \in {"simulate", "correct"} /\ pc \in {"lms", "lms_out", "returned"}) =>
       frame.lms = MulVec(LMS_FROM_RGB, to_linear(args.rgb))
  /\ (args.fn = "simulate" /\ pc \in {"lms_out", "returned"}) =>
       LET ch == SelectedChannel(args.cb_type)
       IN /\ Within(frame.lms_sim[ch],
                    FAdd(FMul(FSub(FInt(1, args.strength), args.strength), frame.lms[ch]),
                         FMul(args.strength, Dot(LMS_SIMULATE[ch], frame.lms))),
                    F4(0, 0, 0, 10))
          /\ pc = "returned" =>
               result.value = VPow(Clamp(MulVec(RGB_FROM_LMS, frame.lms_sim)),
                                   GammaDen, GammaNum)
  /\ (args.fn = "correct" /\ pc \in {"lms_out", "returned"}) =>
       LET ch == SelectedChannel(args.cb_type)
       IN /\ frame.error =
               FMul(args.strength, FSub(frame.lms[ch], Dot(LMS_SIMULATE[ch], frame.lms)))
          /\ \A other \in (1..3) \ {ch} :
               frame.correct_final[other] =
                 FMul(ToPrec(NC_DELTA_RECIP[other][ch], args.strength),
                      FMul(FMul(args.strength, args.strength),
                           FNeg(ToPrec(amount_recip[ch], args.strength))))
          /\ pc = "returned" =>
               result.value = VPow(Clamp(MulVec(RGB_FROM_LMS, frame.lms_corrected)),
                                   GammaDen, GammaNum)
  /\ (args.fn = "daltonise" /\ pc \in {"delta", "returned"}) =>
       /\ frame.rgb_sim =
            MulVec(RGB_FROM_LMS_V,
                   MulVec(Zeroing(args.cb_type), MulVec(LMS_FROM_RGB_V, args.rgb)))
       /\ frame.error = VSub(args.rgb, frame.rgb_sim)
       /\ frame.rgb_delta =
            MulVec(ErrorToDelta(args.cb_type), VScale(frame.error, args.strength))

\* a daltonise call, whose simulated colour differs from the input, returned
C12_Witness ==
  /\ pc = "returned" /\ args.fn = "daltonise" /\ args.cb_type = "tritanope"
  /\ frame.rgb_sim # args.rgb
  /\ frame.rgb_delta # <<F4(0, 0, 0, 0), F4(0, 0, 0, 0), F4(0, 0, 0, 0)>>

-----------------------------------------------------------------------------
(* the specification of the settings store: a ConfigManager constructed on
   one of a few config.ini files, then any sequence of get_config,
   set_config and reset *)

GameIds == {<<"GLOBAL">>, <<"730">>, <<"440">>}

OptionalIds == GameIds \cup {None}

\* the configurations given to set_config: a disabled one, and one whose
\* strength generate_lut would refuse
StoreConfigs ==
  { CorrectionConfig(FALSE, "protanope", "simulate", F2(0, 5000), 16),
    CorrectionConfig(TRUE, "tritanope", "daltonise", F2(1, 2500), 64) }

\* no file; a file _save wrote; a file without the section of the global
\* scope and with a section that leaves options out
InitialConfigFiles ==
  { NoFile,
    _save(_set_game_section(
            _set_game_section(_create_default_config(<<>>), <<"730">>,
              CorrectionConfig(FALSE, "protanope", "simulate", F2(0, 5000), 16)),
            GLOBAL_GAME_ID,
            CorrectionConfig(TRUE, "tritanope", "daltonise", F2(1, 2500), 64))),
    _save([n \in {"game_440"} |-> [o \in {"enabled"} |-> <<"n", "o">>]]) }

InitStore ==
  /\ pc = "idle"
  /\ args = NoCall
  /\ lut_data = <<>>
  /\ files = InitialFiles
  /\ files0 = files
  /\ result = [exc |-> "none"]
  /\ frame = <<>>
  /\ \E file \in InitialConfigFiles :
       /\ config = ConfigManager(file).config
       /\ config_file = ConfigManager(file).config_file
  /\ config0 = config
  /\ looks = <<>>
  /\ request = NoCall

NextStore ==
  \/ \E game_id \in OptionalIds : GetConfig(game_id)
  \/ \E c \in StoreConfigs, game_id \in OptionalIds : SetConfig(c, game_id)
  \/ \E game_id \in OptionalIds : Reset(game_id)

SpecStore == InitStore /\ [][NextStore]_vars

-----------------------------------------------------------------------------
(* properties of the settings store (SpecStore) *)

HasEntry(sections, game_id) == _get_game_section_name(game_id) \in DOMAIN sections

\* the configuration the section of game_id holds
Entry(sections, game_id) == _get_game_section(sections, game_id)[1]

\* C14: get_config without an identifier returns the global configuration;
\* with an identifier that has a stored entry it returns that entry; with an
\* identifier without one it returns the global configuration
C14_Lookup ==
  (args.fn = "get_config" /\ pc = "returned") =>
    /\ HasEntry(config, GLOBAL_GAME_ID)
    /\ args.game_id = None => result.value = Entry(config, GLOBAL_GAME_ID)
    /\ (args.game_id # None /\ HasEntry(config, args.game_id)) =>
         result.value = Entry(config, args.game_id)
    /\ (args.game_id # None /\ ~HasEntry(config, args.game_id)) =>
         result.value = Entry(config, GLOBAL_GAME_ID)

\* get_config("440") fell back to a global configuration that is not the
\* default one, while "730" has an entry of its own
C14_Witness ==
  /\ args.fn = "get_config" /\ pc = "returned" /\ args.game_id = <<"440">>
  /\ ~HasEntry(config, <<"440">>)
  /\ HasEntry(config, <<"730">>)
  /\ result.value = Entry(config, GLOBAL_GAME_ID)
  /\ result.value # _get_default_config
  /\ result.value # Entry(config, <<"730">>)

\* C16: after set_config(c, g), get_config(g) returns c; every other
\* identifier that has a stored entry resolves as before; the global
\* configuration is as before when g is an identifier
C16_SetChangesOnlyItsEntry ==
  (args.fn = "set_config" /\ pc \in {"returned", "raised"}) =>
    /\ get_config(config, args.game_id) = args.config
    /\ \A other \in GameIds \ {args.game_id} :
         HasEntry(config0, other) =>
           get_config(config, other) = get_config(config0, other)
    /\ args.game_id # None =>
         get_config(config, None) = get_config(config0, None)

\* C17: after reset(), get_config returns the default configuration for
\* every identifier and for the global scope; after reset(g), g resolves to
\* the defaults, and the global configuration and every other identifier's
\* stored entry are as before
C17_ResetScope ==
  (args.fn = "reset" /\ pc \in {"returned", "raised"}) =>
    /\ args.game_id = None =>
         \A g \in OptionalIds : get_config(config, g) = _get_default_config
    /\ args.game_id # None =>
         /\ get_config(config, args.game_id) = _get_default_config
         /\ get_config(config, None) = get_config(config0, None)
         /\ \A other \in GameIds \ {args.game_id} :
              /\ HasEntry(config, other) = HasEntry(config0, other)
              /\ HasEntry(config0, other) =>
                   config[_get_game_section_name(other)]
                     = config0[_get_game_section_name(other)]

-----------------------------------------------------------------------------
(* the specification of apply_configuration: one request, on a store that
   earlier set_config calls have filled *)

AppIds == {None, <<"730">>, <<"440">>}

ConfigDisabled == CorrectionConfig(FALSE, "protanope", "simulate", F2(0, 5000), 16)

ConfigOutOfDomain == CorrectionConfig(TRUE, "tritanope", "daltonise", F2(1, 2500), 64)

ConfigDisabledOutOfDomain == CorrectionConfig(FALSE, "achromat", "correct", F2(1, 0), 20)

ConfigSampled == CorrectionConfig(TRUE, "protanope", "simulate", F2(0, 5000), 16)

\* the stores explored: a global configuration, and for "730" no entry or an
\* entry of its own; the configuration whose LUT is sampled is the entry of
\* "730" under a disabled global configuration
PluginStores ==
  { IF e = None THEN _set_game_section(_create_default_config(<<>>), GLOBAL_GAME_ID, g)
    ELSE _set_game_section(
           _set_game_section(_create_default_config(<<>>), GLOBAL_GAME_ID, g),
           <<"730">>, e[1]) :
      <<g, e>> \in
        { ge \in {_get_default_config, ConfigDisabled, ConfigOutOfDomain,
                  ConfigDisabledOutOfDomain}
                 \X {None, <<_get_default_config>>, <<ConfigDisabled>>,
                     <<ConfigOutOfDomain>>, <<ConfigDisabledOutOfDomain>>,
                     <<ConfigSampled>>} :
            ge[2] = <<ConfigSampled>> => ge[1] = ConfigDisabled } }

InitPlugin ==
  /\ pc = "idle"
  /\ args = NoCall
  /\ lut_data = <<>>
  /\ files = InitialFiles
  /\ files0 = files
  /\ result = [exc |-> "none"]
  /\ frame = <<>>
  /\ config \in PluginStores
  /\ config0 = config
  /\ config_file = _save(config)
  /\ looks = <<>>
  /\ request = NoCall

NextPlugin ==
  \/ \E app_id \in AppIds : ApplyConfigurationCall(app_id)
  \/ ApplyResolve
  \/ GenerateLutValidate
  \/ CreateLut
  \/ GenerateLutWrite
  \/ ApplySetLook

SpecPlugin == InitPlugin /\ [][NextPlugin]_vars

-----------------------------------------------------------------------------
(* properties of apply_configuration (SpecPlugin) *)

\* C15: while and after apply_configuration runs: if the configuration the
\* request resolves to is disabled, the only activation call is one with the
\* empty path, and no LUT is sampled and no file written; an activation call
\* with the LUT path is made only when generate_lut has returned the path
\* and the file there holds the whole cube file; once generate_lut has
\* raised, no activation call has been made
C15_LookAfterLut ==
  request.fn = "apply_configuration" =>
    LET correction_config == get_game_config(config, request.app_id)
    IN /\ ~correction_config.enabled =>
            /\ lut_data = <<>> /\ files = InitialFiles
            /\ pc \in {"apply", "applied"}
            /\ pc = "applied" <=> Len(looks) = 1
            /\ \A i \in 1..Len(looks) : looks[i].filename = EmptyPath
       /\ correction_config.enabled =>
            /\ Len(looks) <= 1
            /\ \A i \in 1..Len(looks) :
                 /\ looks[i].filename = lut_path
                 /\ pc = "applied"
                 /\ validation_error(args).exc = "none"
                 /\ args.fn = "generate_lut" /\ args.output_path = lut_path
                 /\ Len(lut_data) = args.lut_size * args.lut_size * args.lut_size
                 /\ Len(files[lut_path]) = args.lut_size * args.lut_size * args.lut_size + 2
                 /\ files[lut_path] = cube_lines(lut_data, args.lut_size, cube_title(args))
            /\ pc = "applied" => Len(looks) = 1
       /\ pc = "raised" => looks = <<>>

\* the request for "730" resolved to that application's enabled entry, the
\* LUT was generated into the file and the look set to it
C15_Witness ==
  /\ request.fn = "apply_configuration" /\ request.app_id = <<"730">>
  /\ pc = "applied"
  /\ Len(looks) = 1 /\ looks[1].filename = lut_path
  /\ Len(files[lut_path]) = 16 * 16 * 16 + 2

====
